---- MODULE Spec2Model ----
(***************************************************************************)
(* Pathfinder (jlamothe/pathfinder): exhaustive depth-first search for a   *)
(* path that visits every cell of a rectangular board exactly once.        *)
(*                                                                         *)
(* The model follows Path 1.2 (src/unnamed/part_000).  The recursion of    *)
(* path_iter is unfolded into an explicit stack of frames; each frame      *)
(* holds the parameters and locals of one invocation (pos, moves, i) and   *)
(* the place in the function body it has reached:                          *)
(*   "entry"  lines 168-183  count, completeness test, availability, mark  *)
(*   "check"  lines 185-205  look-ahead pruning (ENABLE_CHECK)             *)
(*   "loop"   lines 207-225  recursion over the move table, backtracking   *)
(* A caller (main, or a test) calls path_find once or twice on the same    *)
(* table storage.  Versions 1.1 and 1.0 (src/path.c) have the same body    *)
(* without the count and the check; version 1.1 adds the progress          *)
(* estimate and its watermark *last_prog.                                  *)
(***************************************************************************)
EXTENDS Integers, Sequences, FiniteSets, TLC

\* ------------------------------------------------------------------ bounds
\* Boards of the general specification: sides 0..MaxSide, at most MaxCells cells.
MaxSide == 4
MaxCells == 12
\* The table storage holds 0..MaxJunk in every cell before the first call,
\* and the iteration counter holds the same value.
MaxJunk == 1

\* ------------------------------------------------------------- data model
Coords(px, py) == [x |-> px, y |-> py]

\* struct Coords delta[]: the default set of legal moves, in table order.
delta ==
  << Coords(1, 2), Coords(2, 1), Coords(-1, 2), Coords(-2, 1),
     Coords(1, -2), Coords(2, -1), Coords(-1, -2), Coords(-2, -1) >>

\* Other move tables a caller may pass (the delta parameter of path_find).
Steps == << Coords(1, 0), Coords(0, 1), Coords(-1, 0), Coords(0, -1) >>
OneWay == << Coords(1, 0), Coords(2, 0) >>
Snake == << Coords(1, 0), Coords(-1, 0), Coords(0, 1) >>
Tables == { delta, Steps, OneWay, Snake }

\* The same moves in another order.
Reverse(s) == [k \in 1..Len(s) |-> s[Len(s) + 1 - k]]
Rotate(s) == [k \in 1..Len(s) |-> s[(k % Len(s)) + 1]]

\* table_size.x * table_size.y
Cells(size) == size.x * size.y

Rows(size) == 0..(size.y - 1)
Cols(size) == 0..(size.x - 1)

\* (variant: the y coordinate is advanced by the x offset)
NewPos_XOffsetTwice(pos, d) == Coords(pos.x + d.x, pos.y + d.x)

\* new_pos.x = pos.x + delta[i].x; new_pos.y = pos.y + delta[i].y
NewPos(pos, d) == Coords(pos.x + d.x, pos.y + d.y)

\* ------------------------------------------------------------ is_available
\* (variant: the lower bounds are not tested; storage below the table reads
\* as zero)
is_available_NoLowerBound(t, size, pos) ==
  IF pos.x >= size.x \/ pos.y >= size.y
    THEN FALSE
    ELSE IF pos.x < 0 \/ pos.y < 0 THEN TRUE ELSE t[pos.y][pos.x] = 0

\* (variant: the occupancy test is left out)
is_available_BoundsOnly(t, size, pos) ==
  ~ (pos.x < 0 \/ pos.x >= size.x \/ pos.y < 0 \/ pos.y >= size.y)

is_available(t, size, pos) ==
  IF pos.x < 0 \/ pos.x >= size.x \/ pos.y < 0 \/ pos.y >= size.y
    THEN FALSE
    ELSE t[pos.y][pos.x] = 0

\* -------------------------------------------------------------- is_blocked
\* (variant: the loop stops one entry short of the end of the move table)
is_blocked_SkipsLast(t, size, dl, pos) ==
  \A k \in 1..(Len(dl) - 1) : ~ is_available(t, size, NewPos(pos, dl[k]))

\* The loop returns 0 at the first available position and 1 when none is.
is_blocked(t, size, dl, pos) ==
  \A k \in 1..Len(dl) : ~ is_available(t, size, NewPos(pos, dl[k]))

\* --------------------------------------------------------- path_iter parts
\* (variant: > for >=)
Complete_Strict(moves, size) == moves > Cells(size)

\* if(moves >= table_size.x * table_size.y) return 1;
Complete(moves, size) == moves >= Cells(size)

\* (variant: the cell is marked before moves is increased)
Mark_BeforeIncrement(t, pos, moves) == [t EXCEPT ![pos.y][pos.x] = moves - 1]

\* table[pos.y][pos.x] = moves;
Mark(t, pos, moves) == [t EXCEPT ![pos.y][pos.x] = moves]

\* (variant: the mark is not undone)
Unmark_Forgotten(t, pos) == t

\* table[pos.y][pos.x] = 0;
Unmark(t, pos) == [t EXCEPT ![pos.y][pos.x] = 0]

\* (variant: the check also runs when one cell remains)
CheckApplies_OneLeft(moves, size) == moves < Cells(size)

\* if(moves < table_size.x * table_size.y - 1)
CheckApplies(moves, size) == moves < Cells(size) - 1

\* The body of the pruning loop: some neighbour of pos is available and blocked.
BlocksNeighbour(t, size, dl, pos) ==
  \E k \in 1..Len(dl) :
    /\ is_available(t, size, NewPos(pos, dl[k]))
    /\ is_blocked(t, size, dl, NewPos(pos, dl[k]))

\* ------------------------------------------------------------- path_find parts
\* (variant: the table is not cleared)
FillZero_Skipped(t, size) == t

\* for(i ...) for(j ...) table[i][j] = 0;
FillZero(t, size) == [r \in Rows(size) |-> [c \in Cols(size) |-> 0]]

\* (variant: the count is not cleared)
IterReset_Forgotten(it, avail) == it

\* if(iter != NULL) *iter = 0;
IterReset(it, avail) == IF avail THEN 0 ELSE it

\* if(iter != NULL) (*iter)++;
IterCount(it, avail) == IF avail THEN it + 1 ELSE it

\* ------------------------------------------------------------------- state
VARIABLES
  table_size,   \* struct Coords table_size
  moveTable,    \* the delta argument of the current call
  start,        \* the pos argument of path_find
  enableCheck,  \* ENABLE_CHECK of the build the current call runs
  iterAvail,    \* iter != NULL
  variant,      \* what the caller does after the first call
  table,        \* int **table, table[y][x]
  iter,         \* *iter
  stack,        \* active path_iter frames, innermost last
  ret,          \* value returned by the invocation that just returned (-1: none)
  pc,           \* "idle", "running", "returned"
  ncall,        \* path_find calls completed
  result,       \* return value of the last completed path_find call
  first,        \* what the first call returned and left behind
  invocations,  \* path_iter calls made by the current path_find call
  exit,         \* which exit the last returning path_iter invocation took
  entered,      \* for each active invocation, the table as it was entered
  last_prog,    \* *last_prog of version 1.1 (int progress of its path_find)
  log           \* the writes to table cells made by the current call, in order

vars == << table_size, moveTable, start, enableCheck, iterAvail, variant, table,
           iter, stack, ret, pc, ncall, result, first, invocations, exit,
           entered, last_prog, log >>

config == << table_size, start, iterAvail, variant >>

Frame(pos, moves, i, at) == [pos |-> pos, moves |-> moves, i |-> i, pc |-> at]

Top == stack[Len(stack)]
\* (variant: a return leaves the frame of the invocation on the stack)
Pop_Keeps == stack

Pop == SubSeq(stack, 1, Len(stack) - 1)
SetTop(f) == [stack EXCEPT ![Len(stack)] = f]
PopEntered == SubSeq(entered, 1, Len(entered) - 1)

\* What the caller does after the first call: nothing ("once"), or a second
\* call with the same arguments, with the move table reversed or rotated, or
\* in a build without ENABLE_CHECK; "progress" calls version 1.1 and then
\* version 1.0 (src/path.c), neither of which has the check or the count.
Variants == { "once", "same", "reversed", "rotated", "nocheck", "progress" }

\* The version of the program the current call runs.
Version ==
  IF variant = "progress" THEN (IF ncall = 0 THEN "1.1" ELSE "1.0") ELSE "1.2"

\* The writes to table cells are recorded for the calls that are compared
\* write by write.
Logged(pos, v) ==
  IF variant = "progress" THEN Append(log, [pos |-> pos, v |-> v]) ELSE log

\* progress * 100 as the int conversion truncates it, in exact arithmetic.
\* The invocation at depth j + 1 was called with progress + i * increment,
\* where increment = 1 / delta_size ^ j in the invocation at depth j; so
\* progress = sum of st[j].i / d ^ j over the calling invocations, and its
\* hundredfold is truncated digit by digit from the innermost caller out.
RECURSIVE Hundredfold(_, _, _)
Hundredfold(st, d, j) ==
  IF j >= Len(st)
    THEN 0
    ELSE (100 * st[j].i + Hundredfold(st, d, j + 1)) \div d

\* progress and increment are floats: the sums and quotients are rounded, so
\* the truncated value is within one of the exact one.
FloatPercent(st, d) ==
  { p \in { Hundredfold(st, d, 1) + e : e \in { -1, 0, 1 } } : p >= 0 }

\* (variant: the watermark is written without the comparison)
Watermark_Unconditional(last, p) == p

\* if(progress * 100 >= *last_prog + 1) *last_prog = progress * 100;
Watermark(last, p) == IF p >= last + 1 THEN p ELSE last

\* Boards and start positions (in bounds, or one step outside on any side).
Boards ==
  { s \in [x : 0..MaxSide, y : 0..MaxSide] : Cells(s) <= MaxCells }
Starts(size) == [x : (-1)..size.x, y : (-1)..size.y]

\* The state before the first call: the caller's storage holds junk.
InitWith(size, dl, pos, avail, var, junk) ==
  /\ table_size = size
  /\ moveTable = dl
  /\ start = pos
  /\ enableCheck = (var # "progress")
  /\ iterAvail = avail
  /\ variant = var
  /\ table = [r \in Rows(size) |-> [c \in Cols(size) |-> junk]]
  /\ iter = junk
  /\ stack = << >>
  /\ ret = -1
  /\ pc = "idle"
  /\ ncall = 0
  /\ result = -1
  /\ first = [ret |-> -1, table |-> << >>, iter |-> -1, log |-> << >>]
  /\ invocations = 0
  /\ exit = "none"
  /\ entered = << >>
  /\ last_prog = 0
  /\ log = << >>

Init ==
  \E size \in Boards, dl \in Tables, avail \in BOOLEAN,
     var \in Variants, junk \in 0..MaxJunk :
    \E pos \in Starts(size) :
      /\ var = "progress" => ~ avail
      /\ InitWith(size, dl, pos, avail, var, junk)

\* ----------------------------------------------------------------- actions
\* path_find, lines 258-274: zero the table, clear the count, make the first
\* path_iter call with moves = 0.
PathFind ==
  /\ pc = "idle"
  /\ table' = FillZero(table, table_size)
  /\ iter' = IterReset(iter, iterAvail)
  /\ stack' = << Frame(start, 0, 0, "entry") >>
  /\ invocations' = 1
  /\ ret' = -1
  /\ pc' = "running"
  /\ exit' = "none"
  /\ entered' = << FillZero(table, table_size) >>
  /\ last_prog' = IF Version = "1.1" THEN 0 ELSE last_prog
  /\ log' = << >>
  /\ UNCHANGED << config, moveTable, enableCheck, ncall, result, first >>

\* path_iter, lines 168-183.
Enter ==
  /\ pc = "running"
  /\ stack # << >>
  /\ Top.pc = "entry"
  /\ iter' = IterCount(iter, iterAvail)
  /\ IF Complete(Top.moves, table_size)
       THEN /\ stack' = Pop
            /\ ret' = 1
            /\ exit' = "complete"
            /\ table' = table
            /\ entered' = PopEntered
            /\ UNCHANGED << last_prog, log >>
       ELSE /\ IF Version = "1.1"
                 THEN \E p \in FloatPercent(stack, Len(moveTable)) :
                        last_prog' = Watermark(last_prog, p)
                 ELSE last_prog' = last_prog
            /\ IF ~ is_available(table, table_size, Top.pos)
                 THEN /\ stack' = Pop
                      /\ ret' = 0
                      /\ exit' = "unavailable"
                      /\ table' = table
                      /\ entered' = PopEntered
                      /\ log' = log
                 ELSE /\ table' = Mark(table, Top.pos, Top.moves + 1)
                      /\ stack' = SetTop(Frame(Top.pos, Top.moves + 1, 0,
                                     IF enableCheck THEN "check" ELSE "loop"))
                      /\ ret' = -1
                      /\ exit' = exit
                      /\ entered' = entered
                      /\ log' = Logged(Top.pos, Top.moves + 1)
  /\ UNCHANGED << config, moveTable, enableCheck, pc, ncall, result, first,
                  invocations >>

\* path_iter, lines 185-205 (compiled only when ENABLE_CHECK is set).
Check ==
  /\ pc = "running"
  /\ stack # << >>
  /\ Top.pc = "check"
  /\ IF /\ CheckApplies(Top.moves, table_size)
        /\ BlocksNeighbour(table, table_size, moveTable, Top.pos)
       THEN /\ table' = Unmark(table, Top.pos)
            /\ stack' = Pop
            /\ ret' = 0
            /\ exit' = "pruned"
            /\ entered' = PopEntered
            /\ log' = Logged(Top.pos, 0)
       ELSE /\ table' = table
            /\ stack' = SetTop(Frame(Top.pos, Top.moves, 0, "loop"))
            /\ ret' = -1
            /\ exit' = exit
            /\ UNCHANGED << entered, log >>
  /\ UNCHANGED << config, moveTable, enableCheck, iter, pc, ncall, result,
                  first, invocations, last_prog >>

\* for(i = 0; i < delta_size; i++), line 208: the index is advanced once the
\* call made for it has returned 0 (r = 0), not before the first call (r = -1).
NextIndex(i, r) == IF r = 0 THEN i + 1 ELSE i

\* path_iter, lines 207-225: the callee (if any) returned 0, or the loop is
\* starting; call path_iter for the next move, or undo the mark and fail.
Loop ==
  /\ pc = "running"
  /\ stack # << >>
  /\ Top.pc = "loop"
  /\ ret \in { -1, 0 }
  /\ LET i == NextIndex(Top.i, ret) IN
       IF i < Len(moveTable)
         THEN /\ stack' = Append(SetTop(Frame(Top.pos, Top.moves, i, "loop")),
                                 Frame(NewPos(Top.pos, moveTable[i + 1]),
                                       Top.moves, 0, "entry"))
              /\ invocations' = invocations + 1
              /\ ret' = -1
              /\ table' = table
              /\ exit' = exit
              /\ entered' = Append(entered, table)
              /\ log' = log
         ELSE /\ table' = Unmark(table, Top.pos)
              /\ stack' = Pop
              /\ ret' = 0
              /\ invocations' = invocations
              /\ exit' = "exhausted"
              /\ entered' = PopEntered
              /\ log' = Logged(Top.pos, 0)
  /\ UNCHANGED << config, moveTable, enableCheck, iter, pc, ncall, result,
                  first, last_prog >>

\* path_iter, line 219: the callee returned 1; return 1.
Found ==
  /\ pc = "running"
  /\ stack # << >>
  /\ Top.pc = "loop"
  /\ ret = 1
  /\ stack' = Pop
  /\ exit' = "found"
  /\ entered' = PopEntered
  /\ UNCHANGED << config, moveTable, enableCheck, table, iter, ret, pc, ncall,
                  result, first, invocations, last_prog, log >>

\* path_find, line 268: return what the outermost path_iter returned.
PathFindReturn ==
  /\ pc = "running"
  /\ stack = << >>
  /\ result' = ret
  /\ ncall' = ncall + 1
  /\ first' = IF ncall = 0
                THEN [ret |-> ret, table |-> table, iter |-> iter, log |-> log]
                ELSE first
  /\ pc' = "returned"
  /\ UNCHANGED << config, moveTable, enableCheck, table, iter, stack, ret,
                  invocations, exit, entered, last_prog, log >>

\* The caller calls path_find a second time on the same storage: with the
\* same arguments, with the move table in another order, in a build without
\* ENABLE_CHECK, or (after version 1.1) in version 1.0.
CallAgain ==
  /\ pc = "returned"
  /\ ncall = 1
  /\ variant # "once"
  /\ moveTable' = CASE variant = "reversed" -> Reverse(moveTable)
                    [] variant = "rotated" -> Rotate(moveTable)
                    [] OTHER -> moveTable
  /\ enableCheck' = (variant \notin { "nocheck", "progress" })
  /\ pc' = "idle"
  /\ UNCHANGED << config, table, iter, stack, ret, ncall, result, first,
                  invocations, exit, entered, last_prog, log >>

Next ==
  \/ PathFind
  \/ Enter
  \/ Check
  \/ Loop
  \/ Found
  \/ PathFindReturn
  \/ CallAgain

Spec == Init /\ [][Next]_vars

\* The default move table on the 4x4 board from every start cell and on the
\* 5x5 board from (0,0); path_find is called twice with the same arguments.
Board4 == Coords(4, 4)
Board5 == Coords(5, 5)
InitKnight ==
  \/ \E pos \in [x : Cols(Board4), y : Rows(Board4)] :
       InitWith(Board4, delta, pos, TRUE, "same", 1)
  \/ InitWith(Board5, delta, Coords(0, 0), TRUE, "same", 1)
SpecKnight == InitKnight /\ [][Next]_vars

\* ------------------------------------------------------ notions of the claims
Returned == pc = "returned"
N == Cells(table_size)
Board == [x : Cols(table_size), y : Rows(table_size)]
InBoard(pos) == pos \in Board
Offsets(dl) == { dl[k] : k \in 1..Len(dl) }
AllZero == \A c \in Board : table[c.y][c.x] = 0

\* The cells of the table that hold k.
Holding(k) == { c \in Board : table[c.y][c.x] = k }

\* The table holds a path of n cells from the start cell: each of 1..n is in
\* exactly one cell, the start cell holds 1, and the cell holding k+1 is the
\* cell holding k plus an offset of the move table.
HoldsPath(n) ==
  /\ \A k \in 1..n : Cardinality(Holding(k)) = 1
  /\ n >= 1 => Holding(1) = { start }
  /\ \A k \in 1..(n - 1) :
       \A a \in Holding(k), b \in Holding(k + 1) :
         \E d \in Offsets(moveTable) : b = NewPos(a, d)

\* Some sequence of moves of dl from pos visits every cell outside visited
\* exactly once and no cell of visited.
RECURSIVE CanFinish(_, _, _)
CanFinish(dl, visited, pos) ==
  \/ visited = Board
  \/ \E d \in Offsets(dl) :
       LET np == NewPos(pos, d) IN
         /\ np \in Board \ visited
         /\ CanFinish(dl, visited \cup { np }, np)

\* A tour exists: a sequence of moves of dl from the start cell that visits
\* every cell of the board exactly once.
HasTour(dl) == InBoard(start) /\ CanFinish(dl, { start }, start)

\* ------------------------------------------------------------------ claims
\* C1: whenever path_find (pruning enabled) returns 1 on a board with
\* N = width*height >= 1 cells, the table holds each of 1..N in exactly one
\* cell, the start cell holds 1, and the cell holding k+1 is the cell holding
\* k plus one offset of the move table.
C1_SuccessHoldsTour ==
  (Returned /\ enableCheck /\ result = 1 /\ N >= 1) => HoldsPath(N)

C1_Witness ==
  Returned /\ enableCheck /\ result = 1 /\ N = MaxCells /\ moveTable = delta

\* C2: whenever path_find returns 0, every cell of the table is 0 on return.
C2_FailureLeavesZero == (Returned /\ result = 0) => AllZero

C2_Witness ==
  /\ Returned /\ result = 0 /\ exit = "exhausted"
  /\ N = MaxCells /\ ncall = 1 /\ invocations > N

\* C3: with the default moves, on every board with at least one cell and from
\* every start position, path_find (pruning enabled) returns 1 if and only
\* if a tour exists.
C3_Exhaustive ==
  (Returned /\ enableCheck /\ moveTable = delta /\ N >= 1)
    => (result = 1 <=> HasTour(delta))

C3_Witness ==
  /\ Returned /\ enableCheck /\ moveTable = delta /\ N = MaxCells
  /\ result = 0 /\ InBoard(start) /\ ~ HasTour(delta)

\* C4: disabling the look-ahead pruning never changes the outcome, for every
\* board, start position and move table: the build without ENABLE_CHECK
\* returns the same result and leaves the same table as the build with it.
C4_PruningNeverChangesOutcome ==
  (Returned /\ ncall = 2 /\ variant = "nocheck")
    => (result = first.ret /\ table = first.table)

\* C5: the search path_find starts does not depend on what the table held
\* when it was called (as its first path_iter invocation starts, every cell
\* is 0 whatever the storage held), and path_find called twice in succession
\* with identical arguments (the second call starting from the table the
\* first call left) returns the same result and leaves the same table.
C5_Idempotent ==
  /\ (pc = "running" /\ stack = << Frame(start, 0, 0, "entry") >>) => AllZero
  /\ (Returned /\ ncall = 2 /\ variant = "same")
       => (result = first.ret /\ table = first.table)

C5_Witness ==
  /\ Returned /\ ncall = 2 /\ variant = "same"
  /\ result = 1 /\ N = MaxCells /\ ~ AllZero

\* C6: with an iteration counter supplied, path_find resets it to 0, every
\* path_iter invocation increases it by exactly 1 as it starts, it never
\* decreases during the search, and it equals the number of path_iter calls
\* made so far that have started; on return it equals the number of
\* path_iter calls the path_find call made.
Started == invocations - (IF stack # << >> /\ Top.pc = "entry" THEN 1 ELSE 0)
C6_IterStep ==
  iterAvail =>
    /\ (pc = "idle" /\ pc' = "running") => iter' = 0
    /\ (pc = "running" /\ stack # << >> /\ Top.pc = "entry") => iter' = iter + 1
    /\ pc = "running" => iter' >= iter
    /\ pc' = "running" => iter' = Started'
    /\ pc' = "returned" => iter' = invocations'
C6_IterCounts == [][C6_IterStep]_vars

C6_Witness ==
  /\ Returned /\ iterAvail /\ ncall = 2
  /\ iter = invocations /\ iter > first.iter /\ first.iter > N

\* C7: whether a tour is found does not depend on the order of the move
\* table: with the table reversed or rotated path_find returns the same
\* found/not-found result, even when the path it leaves differs.
C7_OrderIndependent ==
  (Returned /\ ncall = 2 /\ variant \in { "reversed", "rotated" })
    => result = first.ret

C7_Witness ==
  /\ Returned /\ ncall = 2 /\ variant = "reversed"
  /\ result = 1 /\ first.ret = 1 /\ table # first.table

\* C8 as stated: for every board with width*height <= 1 and every start
\* position, path_find returns 1.
C8_TrivialBoardAnyStart == (Returned /\ N <= 1) => result = 1

\* C8 amended: on a board with no cell, from every start position, path_find
\* returns 1 after one path_iter invocation that marks nothing; on the 1x1
\* board, from the start position (0,0), it returns 1 after two invocations
\* with the single cell holding 1.
C8_TrivialBoard ==
  /\ (Returned /\ N = 0)
       => (result = 1 /\ invocations = 1 /\ exit = "complete" /\ AllZero)
  /\ (Returned /\ N = 1 /\ InBoard(start))
       => (result = 1 /\ invocations = 2 /\ table[0][0] = 1)

C8_Witness == Returned /\ N = 1 /\ InBoard(start) /\ result = 1 /\ ncall = 1

\* C9: on the 4x4 board with the default moves, from each of the 16 start
\* cells, path_find (pruning enabled) returns 0 and leaves all 16 cells 0.
C9_NoTourOn4x4 ==
  (Returned /\ table_size = Board4 /\ moveTable = delta /\ enableCheck)
    => (result = 0 /\ AllZero)

C9_Witness ==
  /\ Returned /\ table_size = Board4 /\ moveTable = delta /\ enableCheck
  /\ start = Coords(3, 3) /\ result = 0 /\ invocations > N

\* C10: on the 5x5 board with the default moves in table order and start
\* (0,0), path_find (pruning enabled) returns 1 with the table holding each of
\* 1..25 exactly once, cell (0,0) holding 1 and consecutive numbers a knight
\* offset apart.
C10_TourOn5x5 ==
  (Returned /\ table_size = Board5 /\ moveTable = delta /\ enableCheck
     /\ start = Coords(0, 0))
    => (result = 1 /\ HoldsPath(N) /\ table[0][0] = 1)

C10_Witness ==
  /\ Returned /\ table_size = Board5 /\ moveTable = delta /\ enableCheck
  /\ start = Coords(0, 0) /\ result = 1 /\ Cardinality(Holding(N)) = 1

\* The frames that have committed (marked) their cell: all those past "entry".
Committed == { k \in 1..Len(stack) : stack[k].pc # "entry" }
Marked == { c \in Board : table[c.y][c.x] # 0 }

\* C11 as stated: during any path_find call the number of path_iter frames
\* active at the same time never exceeds width*height (taken here on boards
\* with at least one cell; on a board with no cell the single invocation
\* already exceeds it).
C11_DepthAtMostCells == (pc = "running" /\ N >= 1) => Len(stack) <= N

\* C11 amended: the number of active path_iter frames never exceeds
\* width*height + 1; the frames that have committed a cell never exceed
\* width*height, every frame but the innermost has committed one, and while
\* no invocation has returned 1 there is one committed frame per marked cell.
C11_DepthBound ==
  pc = "running" =>
    /\ Len(stack) <= N + 1
    /\ Cardinality(Committed) <= N
    /\ \A k \in 1..(Len(stack) - 1) : k \in Committed
    /\ ret # 1 => Cardinality(Committed) = Cardinality(Marked)

C11_Witness ==
  /\ pc = "running" /\ Len(stack) = N + 1 /\ N = MaxCells
  /\ Top.pc = "entry" /\ Top.moves = N /\ Cardinality(Marked) = N

\* The nonzero cells hold exactly 1..m, each in one cell, the cell holding 1
\* is the start cell and the cell holding k+1 is the cell holding k plus an
\* offset of the move table, where m is the number of marked cells.
MarkedIsPath ==
  LET cells == Marked
      m == Cardinality(cells)
  IN /\ \A c \in cells : table[c.y][c.x] \in 1..m
     /\ \A c, e \in cells : table[c.y][c.x] = table[e.y][e.x] => c = e
     /\ \A c \in cells :
          IF table[c.y][c.x] = 1
            THEN c = start
            ELSE \E d \in Offsets(moveTable) :
                   LET b == Coords(c.x - d.x, c.y - d.y) IN
                     /\ b \in cells
                     /\ table[b.y][b.x] = table[c.y][c.x] - 1

\* C13 as stated: in every intermediate state of a search the marked cells
\* form such a path and their number equals the number of active path_iter
\* frames that have committed a cell.
C13_PathAndFrames ==
  (pc = "running" /\ stack # << >>) =>
    (MarkedIsPath /\ Cardinality(Marked) = Cardinality(Committed))

\* C13 amended: in every intermediate state of a search the marked cells
\* form such a path; their number equals the number of active frames that
\* have committed a cell until an invocation returns 1, and from then on
\* (while the frames return 1 one after the other) all width*height cells
\* stay marked.
C13_PathInvariant ==
  pc = "running" =>
    /\ MarkedIsPath
    /\ ret # 1 => Cardinality(Marked) = Cardinality(Committed)
    /\ ret = 1 => Cardinality(Marked) = N

C13_Witness ==
  /\ pc = "running" /\ ret = 0 /\ N = MaxCells /\ moveTable = delta
  /\ Cardinality(Marked) = 5 /\ Cardinality(Committed) = 5
  /\ exit = "exhausted"

\* The innermost invocation has marked its cell and is at the pruning check.
AtCheck == pc = "running" /\ stack # << >> /\ Top.pc = "check"

\* Some neighbour of the cell just marked is available and boxed in.
SomeNeighbourBlocked ==
  \E d \in Offsets(moveTable) :
    /\ is_available(table, table_size, NewPos(Top.pos, d))
    /\ \A e \in Offsets(moveTable) :
         ~ is_available(table, table_size, NewPos(NewPos(Top.pos, d), e))

\* The step unmarks the cell and returns 0 without calling path_iter.
PrunedStep ==
  /\ stack' = Pop
  /\ ret' = 0
  /\ table' = [table EXCEPT ![Top.pos.y][Top.pos.x] = 0]
  /\ invocations' = invocations

\* The step leaves the mark and goes on to the recursion loop.
KeptStep ==
  /\ stack' = SetTop(Frame(Top.pos, Top.moves, 0, "loop"))
  /\ table' = table

\* C15 as stated: for every placement of pos as cell number movesSoFar+1
\* with movesSoFar+1 < width*height, if some neighbour of pos is available
\* and blocked, pos is unmarked and the call fails without recursing.
C15_CheckWhileCellsRemain ==
  [][(AtCheck /\ Top.moves < N /\ SomeNeighbourBlocked) => PrunedStep]_vars

\* C15 amended: the pruning check is applied to a placement exactly when at
\* least two cells remain to fill, movesSoFar+1 < width*height - 1: then, if
\* some neighbour of pos is available and blocked, pos is unmarked and the
\* call fails without recursing; in every other case the mark stays and the
\* call goes on to recurse.
C15_CheckStep ==
  AtCheck =>
    IF Top.moves < N - 1 /\ SomeNeighbourBlocked THEN PrunedStep ELSE KeptStep
C15_CheckWhileTwoRemain == [][C15_CheckStep]_vars

C15_Witness ==
  /\ pc = "running" /\ exit = "pruned" /\ ret = 0 /\ N = MaxCells
  /\ moveTable = delta /\ Len(stack) >= 3
  /\ Cardinality(Marked) = Len(stack)

\* C16: with the default moves, whenever the pruning check rejects a
\* placement (unmarks pos and fails, lines 199-201), no sequence of knight
\* moves extends the current partial path through pos to a tour.
C16_PruneStep ==
  (AtCheck /\ Offsets(moveTable) = Offsets(delta) /\ stack' = Pop /\ ret' = 0)
    => ~ CanFinish(moveTable, Marked, Top.pos)
C16_PruningSound == [][C16_PruneStep]_vars

C16_Witness ==
  /\ pc = "running" /\ exit = "pruned" /\ ret = 0 /\ moveTable = delta
  /\ HasTour(delta) /\ Cardinality(Marked) >= 3

\* The cell of the table that holds k (when exactly one does).
CellOf(k) == CHOOSE c \in Board : table[c.y][c.x] = k

\* The move-table indices of the path the table holds: entry k is the first
\* index whose offset leads from the cell holding k to the cell holding k+1.
IndicesInTable ==
  [k \in 1..(N - 1) |->
     CHOOSE j \in 1..Len(moveTable) :
       /\ NewPos(CellOf(k), moveTable[j]) = CellOf(k + 1)
       /\ \A h \in 1..(j - 1) :
            NewPos(CellOf(k), moveTable[h]) # CellOf(k + 1)]

\* The lexicographically smallest sequence of move-table indices of a tour
\* that continues from pos over the cells outside visited: at each cell the
\* smallest index after which some tour still exists.
RECURSIVE FirstTour(_, _, _)
FirstTour(dl, visited, pos) ==
  IF visited = Board
    THEN << >>
    ELSE LET good == { j \in 1..Len(dl) :
                         /\ NewPos(pos, dl[j]) \in Board \ visited
                         /\ CanFinish(dl, visited \cup { NewPos(pos, dl[j]) },
                                      NewPos(pos, dl[j])) }
             j == CHOOSE a \in good : \A b \in good : a <= b
             np == NewPos(pos, dl[j])
         IN << j >> \o FirstTour(dl, visited \cup { np }, np)

\* C17: with the default moves, when path_find returns 1 the tour left in
\* the table is the first one in table order: its sequence of move-table
\* indices is the lexicographically smallest among all tours from the start.
C17_FirstTourInTableOrder ==
  (Returned /\ result = 1 /\ N >= 1 /\ Offsets(moveTable) = Offsets(delta))
    => IndicesInTable = FirstTour(moveTable, { start }, start)

C17_Witness ==
  /\ Returned /\ enableCheck /\ result = 1 /\ N = MaxCells /\ ncall = 2
  /\ moveTable = Reverse(delta) /\ table # first.table
  /\ IndicesInTable = FirstTour(moveTable, { start }, start)

\* C18: with the default moves, the iteration count path_find reports with
\* the check compiled in is at most the count it reports, for the same board
\* and start, with the check compiled out.
C18_PruningNeverCostsIterations ==
  (Returned /\ ncall = 2 /\ variant = "nocheck" /\ iterAvail
     /\ Offsets(moveTable) = Offsets(delta))
    => first.iter <= iter

C18_Witness ==
  /\ Returned /\ ncall = 2 /\ variant = "nocheck" /\ iterAvail
  /\ moveTable = delta /\ N = MaxCells /\ InBoard(start)
  /\ result = 1 /\ first.ret = 1
  /\ first.iter > N /\ first.iter < iter

\* The table has one entry for each index pair of [0,width) x [0,height) and
\* no other.
TableShape ==
  /\ DOMAIN table = Rows(table_size)
  /\ \A r \in Rows(table_size) : DOMAIN table[r] = Cols(table_size)

\* C19: the table is never read or written outside [0,width) x [0,height):
\* the table keeps its shape, every invocation that has written its mark (and
\* will read or clear it) is at a position on the board, whatever the start
\* and the move table; and a call with a start outside a board of at least
\* one cell returns 0 after exactly one path_iter invocation, with the table
\* all zero.
C19_AccessInBounds ==
  /\ TableShape
  /\ \A k \in Committed : InBoard(stack[k].pos)
  /\ (Returned /\ N >= 1 /\ ~ InBoard(start))
       => (result = 0 /\ invocations = 1 /\ AllZero
             /\ (iterAvail => iter = 1))

C19_Witness ==
  /\ Returned /\ N = MaxCells /\ moveTable = delta
  /\ start = Coords(-1, 2)
  /\ NewPos(start, delta[2]) \in Board
  /\ result = 0 /\ invocations = 1 /\ AllZero /\ exit = "unavailable"

\* Every board, move table and start; the search is run with the check and
\* then without it. The program runs on: a step that can be taken is
\* eventually taken.
InitFair ==
  \E size \in Boards, dl \in Tables :
    \E pos \in Starts(size) :
      InitWith(size, dl, pos, FALSE, "nocheck", 0)

SpecFair == InitFair /\ [][Next]_vars /\ WF_vars(Next)

\* C12: every path_find call terminates: once called, on any board, with any
\* non-empty move table and any start, it eventually returns.
C12_Terminates == (pc = "running") ~> Returned

C12_Witness ==
  /\ Returned /\ N = MaxCells /\ moveTable = delta /\ InBoard(start)
  /\ result = 0 /\ ~ enableCheck /\ invocations > 100

\* An invocation returns: the stack loses its innermost frame.
Returns(r) ==
  /\ pc = "running" /\ stack # << >>
  /\ stack' = Pop /\ ret' = r

\* C14: every path_iter invocation that returns 0 leaves the table exactly as
\* it was when that invocation was entered, whichever failure exit it takes
\* (position unavailable, rejected by the check, all moves failed); an
\* invocation that returns 1 does not set any cell to 0.
C14_ReturnStep ==
  /\ Returns(0) =>
       /\ table' = entered[Len(stack)]
       /\ exit' \in { "unavailable", "pruned", "exhausted" }
  /\ Returns(1) =>
       \A c \in Board : table[c.y][c.x] # 0 => table'[c.y][c.x] # 0
C14_FailureRestoresTable == [][C14_ReturnStep]_vars

C14_Witness ==
  /\ pc = "running" /\ ret = 0 /\ exit = "pruned" /\ N = MaxCells
  /\ Cardinality(Marked) >= 4 /\ Len(stack) = Cardinality(Marked)
  /\ Len(entered) = Len(stack)
  /\ \E c \in Board : entered[Len(stack)][c.y][c.x] # table[c.y][c.x]

\* C20: progress reporting is purely observational: path_find of version 1.1
\* returns the same result, leaves the same final table and makes the same
\* writes to table cells in the same order as path_find of version 1.0 called
\* with the same arguments; and while version 1.1 runs, *last_prog is never
\* lowered.
C20_SameAsVersion10 ==
  (Returned /\ ncall = 2 /\ variant = "progress")
    => (result = first.ret /\ table = first.table /\ log = first.log)
C20_WatermarkStep ==
  (pc = "running" /\ Version = "1.1") => last_prog' >= last_prog
C20_ProgressObservational ==
  [] C20_SameAsVersion10 /\ [][C20_WatermarkStep]_vars

C20_Witness ==
  /\ Returned /\ ncall = 2 /\ variant = "progress" /\ N = MaxCells
  /\ moveTable = delta /\ result = 1 /\ first.ret = 1
  /\ Len(first.log) > N /\ log = first.log /\ last_prog >= 2

====
